---- MODULE Spec2Model ----
(***************************************************************************)
(* State-machine model of the terminal Snake game in src/src/main.rs.      *)
(*                                                                         *)
(* The program is one thread: App::run places the first food and then      *)
(* loops  draw ; handle_events ; update.  The model follows that loop with *)
(* a program counter: one action per outcome of handle_events (no event,   *)
(* or one key press) and one per outcome of the update step (popup shown,  *)
(* interval not elapsed, or a whole tick).  Wall-clock time is abstracted: *)
(* whether 150 ms have elapsed is a nondeterministic choice.               *)
(*                                                                         *)
(* The board is scaled down from the program's 60 x 25 so that the state   *)
(* space is finite and small; every formula is written against GAME_WIDTH  *)
(* and GAME_HEIGHT, never against their values.                            *)
(***************************************************************************)
EXTENDS Integers, Sequences, FiniteSets, TLC

\* Board size (60 x 25 in the program), scaled down.
GAME_WIDTH == 6
GAME_HEIGHT == 4
GRID_SIZE == GAME_WIDTH * GAME_HEIGHT

\* Start cell of the head ((20, 20) in the program) and the food cell of
\* App::default ((50, 20) in the program), scaled to the board above.
DotStartX == 2
DotStartY == 1
FoodStartX == 2
FoodStartY == 0

\* Initial desired length of the tail.
InitTailLength == 3

\* Number of values of the score counter: 256 (u8) in the program, scaled
\* down with the board so that, as on the 60 x 25 board, the board can hold
\* more food than the counter can count.
CounterMod == 4

\* Number of values of the desired length (u16).
U16Mod == 65536

VARIABLES
    counter,                \* App.counter : u8
    exit,                   \* App.exit
    dot,                    \* App.dot : the head cell
    move_right, move_left, move_up, move_down,   \* the four heading flags
    tail,                   \* App.tail : VecDeque<Dot>, index 1 is the front
    tail_length,            \* App.tail_length : u16
    food,                   \* App.food
    show_game_over_popup,
    show_win_popup,
    pc,                     \* position of App::run
    step,                   \* the operation that produced this state
    spawned,                \* what spawn_food_randomly saw each time it returned in that operation
    popped                  \* the cell handle_tail removed from the back in that operation, if any

vars == <<counter, exit, dot, move_right, move_left, move_up, move_down, tail,
          tail_length, food, show_game_over_popup, show_win_popup, pc, step, spawned,
          popped>>

----------------------------------------------------------------------------
\* Helpers

SatSub(a, b) == IF a >= b THEN a - b ELSE 0

\* max_x / max_y of move_dot and spawn_food_randomly
max_x == SatSub(GAME_WIDTH, 3)
max_y == SatSub(GAME_HEIGHT, 3)

Cell(x, y) == [x |-> x, y |-> y]

\* The playable area: the cells the head can be clamped to.
Playable == {Cell(x, y) : x \in 0..max_x, y \in 0..max_y}

\* VecDeque::contains / iter().any
Contains(q, c) == \E i \in 1..Len(q) : q[i] = c

Directions == {"Up", "Down", "Left", "Right"}

Opposite(d) ==
    CASE d = "Up" -> "Down"
      [] d = "Down" -> "Up"
      [] d = "Left" -> "Right"
      [] d = "Right" -> "Left"

----------------------------------------------------------------------------
\* Heading flags: move_up / move_down / move_right / move_left (lines 302-336).
\* f is the record of the four flags.

Flags == [move_right |-> move_right, move_left |-> move_left,
          move_up |-> move_up, move_down |-> move_down]

OneHot(d) == [move_right |-> d = "Right", move_left |-> d = "Left",
              move_up |-> d = "Up", move_down |-> d = "Down"]

move_up_unguarded(f) == OneHot("Up")

move_up_op(f) == IF ~f.move_down THEN OneHot("Up") ELSE f

move_down_op(f) == IF ~f.move_up THEN OneHot("Down") ELSE f

move_right_keeps_up(f) ==
    IF ~f.move_left THEN [OneHot("Right") EXCEPT !.move_up = f.move_up] ELSE f

move_right_op(f) == IF ~f.move_left THEN OneHot("Right") ELSE f

move_left_op(f) == IF ~f.move_right THEN OneHot("Left") ELSE f

----------------------------------------------------------------------------
\* The tick, on the record g of the fields it reads and writes.  The random
\* draws make it nondeterministic: every operator that may place food yields
\* the set of records it can end in.  g.hung is set when spawn_food_randomly
\* can never leave its loop, g.panicked when the score overflows in a build
\* with overflow checks; no later statement of the tick is then executed.

Game == [dot |-> dot, tail |-> tail, tail_length |-> tail_length, food |-> food,
         counter |-> counter, show_game_over_popup |-> show_game_over_popup,
         show_win_popup |-> show_win_popup, hung |-> FALSE, panicked |-> FALSE,
         spawned |-> << >>, popped |-> << >>]

\* The tick has stopped inside a statement and executes nothing further.
Stopped(g) == g.hung \/ g.panicked

\* Lines 267-270: force x to be even.
EvenXNoEdge(x) == IF x % 2 # 0 THEN x + 1 ELSE x

EvenX(x) == IF x % 2 # 0 THEN (IF x = max_x THEN x - 1 ELSE x + 1) ELSE x

\* Lines 272-284: the candidate is on the head or on a tail segment.
ConflictsHeadOnly(g, c) == c = g.dot

ConflictsTailOnly(g, c) == Contains(g.tail, c)

Conflicts(g, c) == c = g.dot \/ Contains(g.tail, c)

\* The candidates of one iteration of the loop (lines 264-270).
Candidates == {Cell(EvenX(rx), ry) : rx \in 0..max_x, ry \in 0..max_y}

\* The desired length at which the game is won (line 253).
WinThresholdPlayable == (max_x + 1) * (max_y + 1) - 1

WinThreshold == GRID_SIZE - 1

\* spawn_food_randomly (lines 252-290).  The loop draws again on every
\* conflict, so it ends with any candidate that does not conflict, and never
\* ends when every candidate conflicts.
spawn_food_randomly(g) ==
    LET w == IF g.tail_length = WinThreshold THEN TRUE ELSE g.show_win_popup
        ok == {c \in Candidates : ~Conflicts(g, c)}
    IN  IF ok = {}
        THEN {[g EXCEPT !.show_win_popup = w, !.hung = TRUE]}
        ELSE {[g EXCEPT !.show_win_popup = w, !.food = c,
                        !.spawned = Append(g.spawned,
                                           [dot |-> g.dot, tail |-> g.tail, food |-> c])]
              : c \in ok}

\* self.counter = self.counter + 1 (line 248): on overflow the addition wraps
\* (release build) or panics (build with overflow checks).
IncrementCounter(g) ==
    IF g.counter + 1 < CounterMod
    THEN {[g EXCEPT !.counter = g.counter + 1]}
    ELSE {[g EXCEPT !.counter = (g.counter + 1) % CounterMod],
          [g EXCEPT !.panicked = TRUE]}

\* handle_food (lines 243-250)
handle_food(g) ==
    IF g.dot.x = g.food.x /\ g.dot.y = g.food.y
    THEN LET g1 == [g EXCEPT !.tail_length = (g.tail_length + 1) % U16Mod]
         IN  UNION {IF g2.hung THEN {g2} ELSE IncrementCounter(g2)
                    : g2 \in spawn_food_randomly(g1)}
    ELSE {g}

\* handle_food followed by one cell of movement:
\* self.handle_food(); self.dot.x += dx; self.dot.y += dy
FoodThenShift(g, dx, dy) ==
    {IF Stopped(h) THEN h ELSE [h EXCEPT !.dot = Cell(h.dot.x + dx, h.dot.y + dy)]
     : h \in handle_food(g)}

\* move_dot (lines 199-232), one operator per if statement; f holds the
\* heading flags.
MoveUp(g, f) ==
    IF ~Stopped(g) /\ f.move_up /\ g.dot.y > 0 THEN FoodThenShift(g, 0, -1) ELSE {g}

MoveRight(g, f) ==
    IF ~Stopped(g) /\ f.move_right /\ g.dot.x < max_x
    THEN UNION {IF ~Stopped(g1) /\ g1.dot.x < max_x THEN FoodThenShift(g1, 1, 0) ELSE {g1}
                : g1 \in FoodThenShift(g, 1, 0)}
    ELSE {g}

MoveLeft(g, f) ==
    IF ~Stopped(g) /\ f.move_left /\ g.dot.x > 0
    THEN UNION {IF ~Stopped(g1) /\ g1.dot.x > 0 THEN FoodThenShift(g1, -1, 0) ELSE {g1}
                : g1 \in FoodThenShift(g, -1, 0)}
    ELSE {g}

MoveDown(g, f) ==
    IF ~Stopped(g) /\ f.move_down /\ g.dot.y < max_y THEN FoodThenShift(g, 0, 1) ELSE {g}

move_dot(g, f) ==
    UNION {MoveDown(g3, f) : g3 \in
        UNION {MoveLeft(g2, f) : g2 \in
            UNION {MoveRight(g1, f) : g1 \in MoveUp(g, f)}}}

\* handle_tail (lines 234-241)
handle_tail_no_trim(g) == [g EXCEPT !.tail = <<g.dot>> \o g.tail]

handle_tail_pop_front(g) ==
    LET pushed == <<g.dot>> \o g.tail
    IN  IF g.tail_length < Len(pushed)
        THEN [g EXCEPT !.tail = SubSeq(pushed, 2, Len(pushed)),
                       !.popped = <<pushed[1]>>]
        ELSE [g EXCEPT !.tail = pushed]

handle_tail(g) ==
    LET pushed == <<g.dot>> \o g.tail
    IN  IF g.tail_length < Len(pushed)
        THEN [g EXCEPT !.tail = SubSeq(pushed, 1, Len(pushed) - 1),
                       !.popped = <<pushed[Len(pushed)]>>]
        ELSE [g EXCEPT !.tail = pushed]

\* handle_death (lines 292-296)
handle_death(g) ==
    IF Contains(g.tail, g.dot) THEN [g EXCEPT !.show_game_over_popup = TRUE] ELSE g

\* The body of update once the interval has elapsed (lines 191-193).
UpdateBody(g, f) == move_dot(handle_tail(handle_death(g)), f)

----------------------------------------------------------------------------
\* State after App::default() (lines 48-66), before run is entered.

Init ==
    /\ counter = 0
    /\ exit = FALSE
    /\ dot = Cell(DotStartX, DotStartY)
    /\ food = Cell(FoodStartX, FoodStartY)
    /\ move_right = FALSE
    /\ move_left = FALSE
    /\ move_up = TRUE
    /\ move_down = FALSE
    /\ tail = << >>
    /\ tail_length = InitTailLength
    /\ show_game_over_popup = FALSE
    /\ show_win_popup = FALSE
    /\ pc = "start"
    /\ step = "init"
    /\ spawned = << >>
    /\ popped = << >>

Keys == {"Left", "Right", "Up", "Down", "q", "other"}

\* Writes the fields of a game record back to the variables.
SetGame(g) ==
    /\ dot' = g.dot
    /\ tail' = g.tail
    /\ tail_length' = g.tail_length
    /\ food' = g.food
    /\ counter' = g.counter
    /\ show_game_over_popup' = g.show_game_over_popup
    /\ show_win_popup' = g.show_win_popup
    /\ spawned' = g.spawned
    /\ popped' = g.popped

SetFlags(f) ==
    /\ move_right' = f.move_right
    /\ move_left' = f.move_left
    /\ move_up' = f.move_up
    /\ move_down' = f.move_down

\* The loop condition of run (line 82), evaluated after an update step.
LoopOrExit == IF exit THEN "exited" ELSE "events"

\* run, line 81: the first food is placed before the loop starts.
RunStart ==
    /\ pc = "start"
    /\ \E g \in spawn_food_randomly(Game) :
         /\ SetGame(g)
         /\ pc' = IF g.hung THEN "hung" ELSE LoopOrExit
    /\ step' = "start"
    /\ UNCHANGED <<exit, move_right, move_left, move_up, move_down>>

\* handle_events (lines 161-171): the poll times out, or the event is not a
\* key press.
NoEvent ==
    /\ pc = "events"
    /\ pc' = "update"
    /\ step' = "none"
    /\ spawned' = << >>
    /\ popped' = << >>
    /\ UNCHANGED <<counter, exit, dot, move_right, move_left, move_up, move_down,
                   tail, tail_length, food, show_game_over_popup, show_win_popup>>

\* handle_key_event (lines 173-186)
KeyFlags(k, f) ==
    CASE k = "Left" -> move_left_op(f)
      [] k = "Right" -> move_right_op(f)
      [] k = "Up" -> move_up_op(f)
      [] k = "Down" -> move_down_op(f)
      [] OTHER -> f

KeyPress(k) ==
    /\ pc = "events"
    /\ exit' = (exit \/ show_game_over_popup \/ k = "q")
    /\ SetFlags(KeyFlags(k, Flags))
    /\ pc' = "update"
    /\ step' = k
    /\ spawned' = << >>
    /\ popped' = << >>
    /\ UNCHANGED <<counter, dot, tail, tail_length, food, show_game_over_popup,
                   show_win_popup>>

\* run, line 85: update is called only while no popup is shown.
UpdateAllowedAlways == TRUE

UpdateAllowed == ~show_game_over_popup /\ ~show_win_popup

\* run, lines 85-87, a popup is shown: update is skipped.
SkipUpdate ==
    /\ pc = "update"
    /\ ~UpdateAllowed
    /\ pc' = LoopOrExit
    /\ step' = "skip"
    /\ spawned' = << >>
    /\ popped' = << >>
    /\ UNCHANGED <<counter, exit, dot, move_right, move_left, move_up, move_down,
                   tail, tail_length, food, show_game_over_popup, show_win_popup>>

\* update (lines 188-197), fewer than 150 ms since last_update.
UpdateNotElapsed ==
    /\ pc = "update"
    /\ UpdateAllowed
    /\ pc' = LoopOrExit
    /\ step' = "wait"
    /\ spawned' = << >>
    /\ popped' = << >>
    /\ UNCHANGED <<counter, exit, dot, move_right, move_left, move_up, move_down,
                   tail, tail_length, food, show_game_over_popup, show_win_popup>>

\* update (lines 188-197), the interval has elapsed: one whole tick.
Tick ==
    /\ pc = "update"
    /\ UpdateAllowed
    /\ \E g \in UpdateBody(Game, Flags) :
         /\ ~Stopped(g)
         /\ SetGame(g)
    /\ pc' = LoopOrExit
    /\ step' = "tick"
    /\ UNCHANGED <<exit, move_right, move_left, move_up, move_down>>

\* update, the interval has elapsed, and spawn_food_randomly never returns:
\* the program stays inside the tick, in the state it had at the call.
TickHangs ==
    /\ pc = "update"
    /\ UpdateAllowed
    /\ \E g \in UpdateBody(Game, Flags) :
         /\ g.hung
         /\ SetGame(g)
    /\ pc' = "hung"
    /\ step' = "hang"
    /\ UNCHANGED <<exit, move_right, move_left, move_up, move_down>>

\* update, the interval has elapsed, and the score overflows in a build with
\* overflow checks: the program panics inside the tick.
TickPanics ==
    /\ pc = "update"
    /\ UpdateAllowed
    /\ \E g \in UpdateBody(Game, Flags) :
         /\ g.panicked
         /\ SetGame(g)
    /\ pc' = "panicked"
    /\ step' = "panic"
    /\ UNCHANGED <<exit, move_right, move_left, move_up, move_down>>

Next ==
    \/ RunStart
    \/ NoEvent
    \/ \E k \in Keys : KeyPress(k)
    \/ SkipUpdate
    \/ UpdateNotElapsed
    \/ Tick
    \/ TickHangs
    \/ TickPanics

Spec == Init /\ [][Next]_vars

----------------------------------------------------------------------------
\* Vocabulary of the properties

\* The game is still running: no popup is shown.
Running == ~show_game_over_popup /\ ~show_win_popup

\* The program is between two handlers of the loop (not inside a tick).
BetweenHandlers == pc \in {"events", "update", "exited"}

HeadingIs(d) == Flags = OneHot(d)

FlagCount ==
    (IF move_up THEN 1 ELSE 0) + (IF move_down THEN 1 ELSE 0)
    + (IF move_left THEN 1 ELSE 0) + (IF move_right THEN 1 ELSE 0)

\* The direction of a move from cell a to a different cell b.
MoveDir(a, b) ==
    IF b.y < a.y THEN "Up"
    ELSE IF b.y > a.y THEN "Down"
    ELSE IF b.x < a.x THEN "Left"
    ELSE "Right"

NoDuplicates(q) == \A i, j \in 1..Len(q) : i # j => q[i] # q[j]

\* The playable cells occupied by neither the head nor a tail segment.
FreeCells == {c \in Playable : c # dot /\ ~Contains(tail, c)}

----------------------------------------------------------------------------
\* C1: a heading request r made while the heading is h leaves the heading h
\* when r is the exact opposite of h, and makes it r otherwise (r = h
\* included).
C1_HeadingRequest ==
    [][(pc = "events" /\ step' \in Directions)
          => \A h \in Directions :
                HeadingIs(h)
                    => Flags' = OneHot(IF step' = Opposite(h) THEN h ELSE step')]_vars

\* A request for Down has been processed while the heading was Up.
C1_Witness == pc = "update" /\ step = "Down" /\ move_up

\* C2: in every reachable state exactly one of the four heading flags is true.
C2_ExactlyOneHeading == FlagCount = 1

\* A tick has run with a heading other than the initial one.
C2_Witness == step = "tick" /\ move_left /\ Len(tail) >= 2

\* C3: after every completed tick the food cell is neither the head cell nor
\* a tail cell.
C3_FoodNotOnSnake == step = "tick" => (food # dot /\ ~Contains(tail, food))

\* C4 as stated: after every completed tick, from the initial state onward,
\* tail.len() == tail_length.
C4_LengthEqualsDesired == step = "tick" => Len(tail) = tail_length

\* C4 as amended: after every completed tick tail.len() <= tail_length (the
\* trim of handle_tail keeps the body from exceeding the desired length; the
\* body may fall short of it while it is still growing).
C4_LengthAtMostDesired == step = "tick" => Len(tail) <= tail_length

\* A tick after a growth has ended with the tail at its full desired length.
C4_Witness == step = "tick" /\ tail_length > InitTailLength /\ Len(tail) = tail_length

\* C5: while the game is running the head cell and the tail cells are
\* pairwise distinct.
C5_NoDuplicateCells ==
    (BetweenHandlers /\ Running) => (~Contains(tail, dot) /\ NoDuplicates(tail))

\* C6: once a popup flag is set it stays set, and no later step changes the
\* head, the tail, the desired length, the food or the score.
C6_Terminal ==
    [][(show_game_over_popup \/ show_win_popup)
          => /\ show_game_over_popup => show_game_over_popup'
             /\ show_win_popup => show_win_popup'
             /\ UNCHANGED <<dot, tail, tail_length, food, counter>>]_vars

\* The loop has gone through an update step with the game-over popup shown.
C6_Witness == show_game_over_popup /\ step = "skip" /\ pc = "events"

\* C7: whenever spawn_food_randomly returns, the food it stored is neither on
\* the head nor on any tail cell of that moment.
C7_SpawnAvoidsSnake ==
    \A i \in 1..Len(spawned) :
        /\ spawned[i].food # spawned[i].dot
        /\ ~Contains(spawned[i].tail, spawned[i].food)

\* Food has been placed inside a tick, with at least two segments to avoid.
C7_Witness == step = "tick" /\ Len(spawned) > 0 /\ Len(spawned[1].tail) >= 2

\* C8: spawn_food_randomly returns whenever a playable cell is free: the
\* program is never stuck in its loop while such a cell exists.
C8_SpawnTerminates == pc = "hung" => FreeCells = {}

\* C9: the direction in which a tick moves the head is never the exact
\* opposite of the direction in which the previous tick moved it (the front
\* of the tail is the head cell before the previous tick).
C9_NoReversal ==
    [][(step' = "tick" /\ Len(tail) > 0 /\ dot # tail[1] /\ dot' # dot)
          => MoveDir(dot, dot') # Opposite(MoveDir(tail[1], dot))]_vars

\* C10: a tick that moves the head onto the food cell increases the score
\* and the desired length by one and places new food, in that same tick.
C10_FoodEatenOnArrival ==
    [][(step' = "tick" /\ Running /\ dot' # dot /\ dot' = food)
          => /\ counter' = counter + 1
             /\ tail_length' = tail_length + 1
             /\ food' # food]_vars

\* C11: between ticks the score is the number of food cells consumed since
\* the start: counter == tail_length - 3.
C11_ScoreCountsFood ==
    BetweenHandlers => counter = tail_length - InitTailLength

\* C12: a tick ends with show_win_popup set exactly when it consumed food
\* and the desired length thereby became GRID_SIZE - 1 (a tick starts only
\* while the flag is clear).
C12_WinAtThreshold ==
    [][step' = "tick"
          => (show_win_popup'
                <=> (tail_length' # tail_length /\ tail_length' = GRID_SIZE - 1))]_vars

\* A tick has consumed food at another desired length and left the flag clear.
C12_Witness ==
    step = "tick" /\ Len(spawned) > 0 /\ tail_length # GRID_SIZE - 1 /\ ~show_win_popup

\* C13: the tick in which handle_death sets show_game_over_popup leaves the
\* head, the tail, the desired length, the food and the score unchanged.
C13_LosingTickStops ==
    [][(step' = "tick" /\ ~show_game_over_popup /\ show_game_over_popup')
          => UNCHANGED <<dot, tail, tail_length, food, counter>>]_vars

\* C14: when the tail is at its desired length (so this tick removes its back
\* cell) and the head is on no tail cell, a tick that moves the head into the
\* cell of the back segment does not set show_game_over_popup, and leaves the
\* head on no tail cell, so that the next tick's handle_death does not either.
C14_VacatedCellIsFree ==
    [][(/\ step' = "tick"
        /\ Len(tail) > 0
        /\ Len(tail) = tail_length
        /\ ~Contains(tail, dot)
        /\ dot' # dot
        /\ dot' = tail[Len(tail)])
          => (~show_game_over_popup' /\ ~Contains(tail', dot'))]_vars

\* A tick that consumed no food has moved the head into the cell it removed
\* from the back of the tail.
C14_Witness ==
    /\ step = "tick"
    /\ popped = <<dot>>
    /\ Len(tail) = tail_length
    /\ ~show_game_over_popup

\* The active heading would take the head outside the playable area
\* (the guards of move_dot, lines 206, 211, 219, 227).
BlockedByBoundary ==
    \/ move_up /\ dot.y = 0
    \/ move_down /\ dot.y = max_y
    \/ move_left /\ dot.x = 0
    \/ move_right /\ dot.x = max_x

\* The head is on the front cell of the tail and on no other tail cell: it
\* stayed in place during the previous tick and has hit nothing else.
OnlyStayedInPlace ==
    /\ Len(tail) > 0
    /\ tail[1] = dot
    /\ \A i \in 2..Len(tail) : tail[i] # dot

\* C15: a tick whose move is blocked by the boundary leaves the head where it
\* is, and no tick sets show_game_over_popup merely because the head stayed
\* in place during the previous tick.
C15_WallsNotLethal ==
    [][/\ (step' = "tick" /\ BlockedByBoundary) => dot' = dot
       /\ (step' = "tick" /\ OnlyStayedInPlace) => ~show_game_over_popup']_vars

\* The heading the code's rule gives for request r made at heading h (C1).
Requested(h, r) == IF r = Opposite(h) THEN h ELSE r

\* C16: the heading a tick uses depends only on the heading of the previous
\* tick and on the last direction requested since.  A window with a single
\* request r after heading h yields Requested(h, r), so that is the value the
\* claim fixes for every window ending with r.  (The previous heading is read
\* off the previous tick's move, the last request off the key press of the
\* loop iteration in which the tick runs.)
C16_LatestRequestWins ==
    [][(/\ step' = "tick"
        /\ step \in Directions
        /\ Len(tail) > 0
        /\ dot # tail[1])
          => HeadingIs(Requested(MoveDir(tail[1], dot), step))]_vars

\* C17: in every reachable state the head, every tail cell and the food lie
\* inside the playable area, 0 <= x <= GAME_WIDTH - 3 and
\* 0 <= y <= GAME_HEIGHT - 3.
C17_InsidePlayableArea ==
    /\ dot \in Playable
    /\ food \in Playable
    /\ \A i \in 1..Len(tail) : tail[i] \in Playable

\* A tick has been blocked in the corner (max_x, 0), and the food lies in the
\* last column in which it can be placed.
C17_Witness ==
    /\ step = "tick"
    /\ dot = Cell(max_x, 0)
    /\ Len(tail) > 0
    /\ tail[1] = dot
    /\ food.x = EvenX(max_x)

\* The cells spawn_food_randomly can end with when the head is d and the tail t.
SpawnOutcomes(d, t) ==
    {g.food : g \in {h \in spawn_food_randomly([Game EXCEPT !.dot = d, !.tail = t]) :
                        ~h.hung}}

\* The playable cells that are neither the head d nor in the tail t.
FreeOf(d, t) == {c \in Playable : c # d /\ ~Contains(t, c)}

\* C18 as stated: at every call of spawn_food_randomly the cells it can place
\* the food on are exactly the playable cells not occupied by the snake.
C18_EveryFreeCellPossible ==
    \A i \in 1..Len(spawned) :
        SpawnOutcomes(spawned[i].dot, spawned[i].tail)
            = FreeOf(spawned[i].dot, spawned[i].tail)

\* C18 as amended: they are exactly the playable cells with even x not
\* occupied by the snake.
C18_EveryFreeEvenCellPossible ==
    \A i \in 1..Len(spawned) :
        SpawnOutcomes(spawned[i].dot, spawned[i].tail)
            = {c \in FreeOf(spawned[i].dot, spawned[i].tail) : c.x % 2 = 0}

\* Food has been placed inside a tick that had at least two cells to choose from.
C18_Witness ==
    /\ step = "tick"
    /\ Len(spawned) > 0
    /\ Len(spawned[1].tail) >= 2
    /\ Cardinality(SpawnOutcomes(spawned[1].dot, spawned[1].tail)) >= 2

\* The previous tick moved the head two cells along a row, and the cell in
\* between is a tail cell (the front of the tail is where that move started).
CrossedTail ==
    /\ Len(tail) > 0
    /\ tail[1].y = dot.y
    /\ (tail[1].x = dot.x + 2 \/ dot.x = tail[1].x + 2)
    /\ Contains(tail, Cell((tail[1].x + dot.x) \div 2, dot.y))

\* The previous tick moved the head onto a tail cell.
MovedOntoTail == Len(tail) > 0 /\ dot # tail[1] /\ Contains(tail, dot)

\* C19: when a tick has moved the head onto or across a tail cell, the next
\* tick ends with show_game_over_popup set.
C19_NoPassingThroughBody ==
    [][(step' = "tick" /\ (MovedOntoTail \/ CrossedTail))
          => show_game_over_popup']_vars

\* C20 (a possibility, not a property of every behaviour; recorded here is
\* what holds instead): the desired length never runs more than the initial
\* three cells ahead of the tail, whose cells are pairwise distinct and
\* playable, so it stays below GRID_SIZE - 1 and show_win_popup is never set.
WinNeverReached ==
    /\ ~show_win_popup
    /\ tail_length < GRID_SIZE - 1
    /\ BetweenHandlers =>
          /\ tail_length <= Len(tail) + InitTailLength
          /\ Running => NoDuplicates(tail)

====
